---- MODULE Spec2Model ----
(***************************************************************************)
(* A state-machine model of klmitch/tendril: the stream (TCP) tendril with *)
(* its receive and send greenlets (tendril/tcp.py) and the tendril manager *)
(* with its registries, lifecycle and accept loop (tendril/manager.py,     *)
(* tendril/tcp.py).                                                        *)
(*                                                                         *)
(* Scheduling is gevent's: cooperative greenlets that give up control only *)
(* at a blocking call (socket recv/send/accept, Event.wait on an unset     *)
(* event, Semaphore.acquire on a zero counter).  Each action below is the  *)
(* code a greenlet runs from one blocking call to the next.  Greenlet.kill *)
(* throws GreenletExit into the target at its blocking call; the target's  *)
(* link callback (the completion handler) runs later, as its own step.     *)
(*                                                                         *)
(* Readings of the source the model relies on (the files under src/ are    *)
(* not mutually consistent, so names are resolved to what they evidently   *)
(* denote and control flow is kept as written):                            *)
(*   - tcp.py derives TCPTendril from tendril.connection.Tendril, a module *)
(*     that is not among the sources (tendril/tendril.py holds a base      *)
(*     class whose close() delegates to a _close() tcp.py does not have).  *)
(*     The step TCPTendril.close() reaches by super().close() is the       *)
(*     tracked-removal, the manager's _untrack_tendril (BaseClose).        *)
(*   - manager.py keys the tracked table by tendril.addr, the remote       *)
(*     address (tendril.py documents ``addr`` as the remote address).      *)
(*   - tcp.py line 153 declares wrap(wrapper) without self, line 223 names *)
(*     accept for acceptor, line 283 wraper for wrapper, line 304 serv for *)
(*     sock, and listener takes (acceptor, wrapper) while start() passes   *)
(*     two more arguments: the bodies are modelled with the names bound as *)
(*     the surrounding code binds them.                                    *)
(*   - a killed greenlet reports exception GreenletExit and is not         *)
(*     successful(), as _thread_error and its tests assume; a task handle  *)
(*     is true exactly when it is not None.                                *)
(*   - Greenlet.kill is taken as one step of the caller: the target is     *)
(*     dead when kill returns and its link callback is still to run.       *)
(*   - nothing under src/ calls TCPTendril._start: the application starts  *)
(*     a tendril after it has been handed over, and the acceptor callback  *)
(*     returns without blocking, so building and tracking a tendril is one *)
(*     step of the listener or of connect().                               *)
(*   - tendril/tendril.py holds the framer accessors; the code that uses a *)
(*     framer with its state (_send_frameify, _recv_frameify, the framers  *)
(*     module) is not among the sources and is modelled from the accessor  *)
(*     docstrings ("the framer state will be reset next time the framer is *)
(*     used").  The framers setter of that file opens with an elif; the    *)
(*     send_framer and recv_framer accessors above it are modelled as      *)
(*     written.                                                            *)
(*   - tendril/udp.py and application.RejectConnection are not among the   *)
(*     sources: the datagram manager and tendril are modelled from their   *)
(*     unit tests (tests/unit/test_udp.py).                                *)
(***************************************************************************)
EXTENDS Integers, Sequences, FiniteSets, TLC

(* ------------------------------ bounds --------------------------------- *)
NT == 2          \* tendril objects that may be constructed
NM == 2          \* manager objects that may be constructed
NKeys == 1       \* distinct (proto, endpoint) identities beyond the first
NAddrs == 1      \* distinct remote addresses beyond the first
MaxReads == 3    \* data chunks read per tendril (the empty read comes on top)
MaxFrames == 2   \* send_frame calls per tendril
MaxWraps == 1    \* socket wrappings per tendril
NL == 2          \* listener greenlets that may be spawned
NFramers == 2    \* distinct framers an application may assign
MaxBuf == 2      \* fragments a framer state buffers before a frame completes

(* ------------------------- program constants --------------------------- *)
ErrThreshold == 10    \* tcp.py: if err_thresh >= 10: raise

Tendrils == 1..NT
Managers == 1..NM
Listeners == 1..NL
Keys == 0..NKeys
Addrs == 0..NAddrs
Chunks == {1, 2}      \* non-empty results of sock.recv; 0 is the empty read
Frames == {1, 2}      \* application frames
Framers == 1..NFramers   \* framers; 0 is a value that is not a Framer
DefaultFramer == 1       \* what default_framer() builds

VARIABLES
  tend,          \* tendril objects: Tendrils -> record of the object's fields
  mgr,           \* manager objects: Managers -> record of the object's fields
  managers,      \* TendrilManager._managers: Keys -> manager id, 0 if absent
  running_managers, \* TendrilManager._running_managers: Keys -> id, 0 if absent
  lis,           \* listener greenlets: Listeners -> record of the greenlet
  last           \* the call completed by the last step and its outcome, if any

vars == <<tend, mgr, managers, running_managers, lis, last>>

None == "None"
Greenlet == "greenlet"

(* --------------------------- gevent primitives ------------------------- *)
SemRelease(c) == c + 1
SemAcquire(c) == c - 1          \* taken only when c > 0

(* -------------------------- tendril objects ---------------------------- *)
\* framers.FramerState(): no framer has used it, nothing is buffered.  buf
\* lists the buffered fragments, each as the framer that buffered it.
FramerState == [owner |-> 0, buf |-> <<>>]

NoTendril ==
  [exists |-> FALSE, conn |-> "none", mgr |-> 0, addr |-> 0, sock |-> 0,
   sendbuf_event |-> FALSE, sendbuf |-> <<>>,
   recv_thread |-> None, send_thread |-> None,
   recv_lock |-> -1, send_lock |-> -1, restart |-> FALSE,
   recvPc |-> "none", recvExc |-> "none", recvLink |-> "none",
   sendPc |-> "none", sendExc |-> "none", sendLink |-> "none",
   sendArg |-> <<>>, wrapPc |-> "idle",
   reads |-> <<>>, delivered |-> <<>>, submitted |-> <<>>,
   written |-> <<>>, notified |-> <<>>, notifiedOpen |-> FALSE,
   send_framer |-> 0, recv_framer |-> 0,
   send_framer_state |-> FramerState, recv_framer_state |-> FramerState]

\* TCPTendril.__init__: the socket is open (1 is the raw socket, 0 is None),
\* no greenlets, no locks (-1 is None), _restart a fresh (unset) Event.
NewTendril(m, a) ==
  [NoTendril EXCEPT !.exists = TRUE, !.mgr = m, !.addr = a, !.sock = 1,
                    !.send_framer = DefaultFramer,
                    !.recv_framer = DefaultFramer]

\* The framer setters' validation: isinstance(value, framers.Framer).
FramerRaises(v) == v \notin Framers

\* A send_framer setter that assigns both directions.
SetSendFramer_Both(r, v) == [r EXCEPT !.send_framer = v, !.recv_framer = v]

\* Tendril.send_framer setter, past the validation.
SetSendFramer(r, v) == [r EXCEPT !.send_framer = v]

\* Tendril.recv_framer setter, past the validation.
SetRecvFramer(r, v) == [r EXCEPT !.recv_framer = v]

\* A framer use that keeps whatever the state holds.
FramerUse_NoReset(f, st) ==
  [st EXCEPT !.owner = f,
             !.buf = IF Len(@) < MaxBuf THEN Append(@, f) ELSE <<>>]

\* Framer f is used on state st: a state last used by another framer is
\* reset to empty first ("the framer state will be reset next time the
\* framer is used"); then the data either completes a frame, emptying the
\* buffer, or is buffered as one more fragment.
FramerUse(f, st) ==
  LET s0 == IF st.owner # f THEN [owner |-> f, buf |-> <<>>] ELSE st
  IN [s0 EXCEPT !.buf = IF Len(@) < MaxBuf THEN Append(@, f) ELSE <<>>]

\* TCPTendril._start
StartT(r) ==
  [r EXCEPT !.recv_lock = 0, !.send_lock = 0, !.restart = TRUE,
            !.recv_thread = Greenlet, !.send_thread = Greenlet,
            !.recvPc = "spawned", !.sendPc = "spawned"]

\* Greenlet.kill() on the receive / send greenlet: a live greenlet dies with
\* GreenletExit and its link callback is scheduled; a dead one is left alone.
KillRecv(r) ==
  IF r.recvPc \in {"spawned", "recv"}
  THEN [r EXCEPT !.recvPc = "dead", !.recvExc = "GreenletExit",
                 !.recvLink = "pending"]
  ELSE r

KillSend(r) ==
  IF r.sendPc \in {"spawned", "wait", "send"}
  THEN [r EXCEPT !.sendPc = "dead", !.sendExc = "GreenletExit",
                 !.sendLink = "pending", !.sendArg = <<>>]
  ELSE r

\* Tendril.closed(error): the application's close notification.  The
\* application sees the tendril as it is at that moment: notifiedOpen records
\* a notification delivered while the socket was still open.
Closed(r, error) ==
  [r EXCEPT !.notified = Append(@, error),
            !.notifiedOpen = @ \/ r.sock # 0]

\* TCPTendril.close, lines 201-211 (the part before super().close()).
CloseT(r) ==
  LET r1 == IF r.recv_thread # None
            THEN [KillRecv(r) EXCEPT !.recv_thread = None] ELSE r
      r2 == IF r1.send_thread # None
            THEN [KillSend(r1) EXCEPT !.send_thread = None] ELSE r1
  IN IF r2.sock # 0 THEN [r2 EXCEPT !.sock = 0] ELSE r2

\* _track_tendril that files the tendril under a fixed key.
TrackTendril_FixedKey(tab, a, t) == [tab EXCEPT ![0] = t]

\* TendrilManager._track_tendril / _untrack_tendril on the tracked table
\* (a dictionary keyed by the remote address; 0 marks an absent key).
TrackTendril(tab, a, t) == [tab EXCEPT ![a] = t]

\* TendrilManager.__getitem__: self.tendrils[addr]; 0 stands for KeyError.
GetItem(tab, a) == tab[a]

\* _untrack_tendril that leaves the entry in place.
UntrackTendril_Keep(tab, a) == tab

UntrackTendril(tab, a) == [tab EXCEPT ![a] = 0]

\* super(TCPTendril, self).close(): the base close, which untracks the
\* tendril from its manager.
BaseClose(m, r) ==
  IF r.mgr = 0 THEN m
  ELSE [m EXCEPT ![r.mgr].tendrils = UntrackTendril(@, r.addr)]

\* TCPTendril._recv, lines 74-79: the park point, then the blocking recv.
\* With _restart set, release / wait / acquire pass without blocking; with
\* _restart clear (a pause is requested) the block is skipped altogether.
RecvLoop(r) ==
  LET r1 == IF r.restart
            THEN [r EXCEPT !.recv_lock = SemAcquire(SemRelease(@))]
            ELSE r
  IN [r1 EXCEPT !.recvPc = "recv"]

\* TCPTendril._recv, line 108: hand the chunk to frame delivery.
RecvFrameify(r, chunk) == [r EXCEPT !.delivered = Append(@, chunk)]

\* RecvTeardown that returns from the greenlet instead of raising
\* GreenletExit: the completion handler sees an ordinary exit.
RecvTeardown_Return(r) ==
  LET r1 == IF r.send_thread # None
            THEN [KillSend(r) EXCEPT !.send_thread = None] ELSE r
      r2 == [r1 EXCEPT !.sock = 0]
      r3 == Closed(r2, None)
  IN [r3 EXCEPT !.recvPc = "dead", !.recvExc = "none",
                !.recvLink = "pending"]

\* TCPTendril._recv, lines 82-105: teardown on an empty read, up to the
\* final raise of GreenletExit (the base close is applied by the action).
RecvTeardown(r) ==
  LET r1 == IF r.send_thread # None
            THEN [KillSend(r) EXCEPT !.send_thread = None] ELSE r
      r2 == [r1 EXCEPT !.sock = 0]
      r3 == Closed(r2, None)
  IN [r3 EXCEPT !.recvPc = "dead", !.recvExc = "GreenletExit",
                !.recvLink = "pending"]

\* RecvT without the test for the empty read: every result is delivered.
RecvT_NoEOF(r, chunk) ==
  RecvLoop(RecvFrameify([r EXCEPT !.reads = Append(@, chunk)], chunk))

\* TCPTendril._recv, lines 79-108: sock.recv returned chunk (0 is empty).
RecvT(r, chunk) ==
  LET r0 == [r EXCEPT !.reads = Append(@, chunk)]
  IN IF chunk = 0 THEN RecvTeardown(r0)
     ELSE RecvLoop(RecvFrameify(r0, chunk))

\* The send framer's serialisation of one frame: the frame followed by a
\* delimiter byte (written 0).
SendFrameify(f) == <<f, 0>>

\* send_frame that appends to the buffer without setting _sendbuf_event.
SendFrameT_NoSignal(r, f) ==
  [r EXCEPT !.sendbuf = @ \o SendFrameify(f),
            !.submitted = @ \o SendFrameify(f)]

\* TCPTendril.send_frame
SendFrameT(r, f) ==
  [r EXCEPT !.sendbuf = @ \o SendFrameify(f), !.sendbuf_event = TRUE,
            !.submitted = @ \o SendFrameify(f)]

\* TCPTendril._send, lines 120-128 and back to 115-116: drain; when the
\* buffer is empty clear the event, release the lock and wait for data.
SendDrain(r) ==
  IF r.sendbuf # <<>>
  THEN [r EXCEPT !.sendPc = "send", !.sendArg = r.sendbuf]
  ELSE [r EXCEPT !.sendbuf_event = FALSE, !.send_lock = SemRelease(@),
                 !.sendPc = "wait"]

\* TCPTendril._send, lines 115-117 on the first pass: release, wait, acquire.
SendLoop(r) ==
  LET r1 == [r EXCEPT !.send_lock = SemRelease(@)]
  IN IF r1.sendbuf_event
     THEN SendDrain([r1 EXCEPT !.send_lock = SemAcquire(@)])
     ELSE [r1 EXCEPT !.sendPc = "wait"]

\* SendTrim that forgets to trim the buffer: the bytes are sent again.
SendTrim_Resend(r, n) ==
  [r EXCEPT !.written = @ \o SubSeq(r.sendArg, 1, n), !.sendArg = <<>>]

\* TCPTendril._send, lines 121-125: sock.send returned n; trim the buffer.
SendTrim(r, n) ==
  [r EXCEPT !.written = @ \o SubSeq(r.sendArg, 1, n),
            !.sendbuf = SubSeq(@, n + 1, Len(@)), !.sendArg = <<>>]

\* _thread_error without the GreenletExit branch: a killed greenlet is
\* reported to the application like any other exit.
ThreadErrorT_NotifyKilled(r, side) ==
  LET r0 == IF side = "send" THEN [r EXCEPT !.sendLink = "done"]
            ELSE [r EXCEPT !.recvLink = "done"]
      exc == IF side = "send" THEN r.sendExc ELSE r.recvExc
  IN Closed(CloseT([r0 EXCEPT !.send_thread = None, !.recv_thread = None]),
            exc)

\* _thread_error that notifies the application before it closes.
ThreadErrorT_NotifyFirst(r, side) ==
  LET r0 == IF side = "send" THEN [r EXCEPT !.sendLink = "done"]
            ELSE [r EXCEPT !.recvLink = "done"]
      exc == IF side = "send" THEN r.sendExc ELSE r.recvExc
  IN IF exc = "none" THEN CloseT(Closed(r0, "premature"))
     ELSE IF exc = "GreenletExit" THEN CloseT(r0)
     ELSE CloseT(Closed(r0, exc))

\* _thread_error that clears both handles before it closes, so that close()
\* kills neither greenlet.
ThreadErrorT_ClearBoth(r, side) ==
  LET r0 == IF side = "send" THEN [r EXCEPT !.sendLink = "done"]
            ELSE [r EXCEPT !.recvLink = "done"]
      r1 == [r0 EXCEPT !.send_thread = None, !.recv_thread = None]
      exc == IF side = "send" THEN r.sendExc ELSE r.recvExc
  IN IF exc = "none" THEN Closed(CloseT(r1), "premature")
     ELSE IF exc = "GreenletExit" THEN CloseT(r1)
     ELSE Closed(CloseT(r1), exc)

\* _thread_error that returns on GreenletExit without calling close().
ThreadErrorT_IgnoreKilled(r, side) ==
  LET r0 == IF side = "send" THEN [r EXCEPT !.sendLink = "done"]
            ELSE [r EXCEPT !.recvLink = "done"]
      r1 == IF side = "send" /\ r0.send_thread = Greenlet
            THEN [r0 EXCEPT !.send_thread = None]
            ELSE IF side = "recv" /\ r0.recv_thread = Greenlet
            THEN [r0 EXCEPT !.recv_thread = None]
            ELSE r0
      exc == IF side = "send" THEN r.sendExc ELSE r.recvExc
  IN IF exc = "none" THEN Closed(CloseT(r1), "premature")
     ELSE IF exc = "GreenletExit" THEN r1
     ELSE Closed(CloseT(r1), exc)

\* TCPTendril._thread_error for the greenlet of one side.
ThreadErrorT(r, side) ==
  LET r0 == IF side = "send" THEN [r EXCEPT !.sendLink = "done"]
            ELSE [r EXCEPT !.recvLink = "done"]
      r1 == IF side = "send" /\ r0.send_thread = Greenlet
            THEN [r0 EXCEPT !.send_thread = None]
            ELSE IF side = "recv" /\ r0.recv_thread = Greenlet
            THEN [r0 EXCEPT !.recv_thread = None]
            ELSE r0
      exc == IF side = "send" THEN r.sendExc ELSE r.recvExc
  IN IF exc = "none" THEN Closed(CloseT(r1), "premature")
     ELSE IF exc = "GreenletExit" THEN CloseT(r1)
     ELSE Closed(CloseT(r1), exc)

(* -------------------------- manager objects ---------------------------- *)
EmptyTable == [a \in Addrs |-> 0]

NoManager ==
  [exists |-> FALSE, key |-> 0, running |-> FALSE, listen_thread |-> 0,
   tendrils |-> EmptyTable, sock |-> 0]

NoListener ==
  [mgr |-> 0, pc |-> "none", exc |-> "none", link |-> "none",
   acceptor |-> FALSE, err_thresh |-> 0, attempts |-> 0, accepted |-> 0,
   tracked |-> 0, streak |-> 0, rejected |-> 0, cli |-> 0]

\* __init__ without the duplicate check.
InitRaises_Never(reg, k) == FALSE

\* TendrilManager.__init__, line 104: the duplicate check.
InitRaises(reg, k) == reg[k] # 0

\* Greenlet.kill() on a listener greenlet.
KillListener(l) ==
  IF l.pc \in {"spawned", "sleep", "accept"}
  THEN [l EXCEPT !.pc = "dead", !.exc = "GreenletExit", !.link = "pending"]
  ELSE l

\* A stop() that leaves the running registry alone.
DelRunning_Keep(reg, k) == reg

\* del self._running_managers[self._manager_key], KeyError ignored.
DelRunning(reg, k) == [reg EXCEPT ![k] = 0]

\* stop() that also drops the listener handle.
StopM_DropHandle(m) == [m EXCEPT !.running = FALSE, !.listen_thread = 0]

\* stop() that leaves the running flag as it is.
StopM_KeepFlag(m) == m

\* TendrilManager.stop on the manager record.
StopM(m) == [m EXCEPT !.running = FALSE]

\* start() without the test of the running flag / of the running registry.
StartRaises_RegistryOnly(m, reg) == reg[m.key] # 0
StartRaises_FlagOnly(m, reg) == m.running

\* TendrilManager.start, lines 156-162: the double-start and conflict checks.
StartRaises(m, reg) == m.running \/ reg[m.key] # 0

\* start() that forgets to keep the handle of the greenlet it spawns.
StartM_NoHandle(m, l) == [m EXCEPT !.running = TRUE]

\* TendrilManager.start, lines 164-172, on the manager record: l is the
\* listener greenlet spawned.
StartM(m, l) == [m EXCEPT !.running = TRUE, !.listen_thread = l]

\* TCPTendrilManager.listener, lines 317-325: the error counter.
ErrAfterFault(e) == e + 1
ErrAfterAccept_Reset(e) == 0            \* a success that clears the counter
ErrAfterAccept_NoFloor(e) == e - 1      \* a decrement without the floor
ErrAfterAccept(e) == IF e - 1 > 0 THEN e - 1 ELSE 0
Aborts_Late(e) == e > ErrThreshold      \* an off-by-one threshold test
Aborts(e) == e >= ErrThreshold

\* Raw connections the accept loop holds open: serv.accept() returns one
\* (line 304), cli.close() closes one (line 315).
CliAccepted(n) == n + 1
CliClosed_Leak(n) == n                  \* the fault path without cli.close()
CliClosed(n) == n - 1

TableRange(tab) == {tab[a] : a \in Addrs} \ {0}

\* Objects are numbered in the order they are created: a new tendril or
\* listener greenlet takes the lowest number not yet used.
FreshTendril(t) ==
  /\ ~tend[t].exists /\ tend[t].conn = "none"
  /\ \A u \in Tendrils : u < t => (tend[u].exists \/ tend[u].conn # "none")

FreshListener(l) ==
  /\ lis[l].pc = "none"
  /\ \A u \in Listeners : u < l => lis[u].pc # "none"

InitLast == [op |-> "none", id |-> 0, err |-> "none", ret |-> 0]
Did(op, id, err) == [op |-> op, id |-> id, err |-> err, ret |-> 0]
DidRet(op, id, err, ret) == [op |-> op, id |-> id, err |-> err, ret |-> ret]

(* ------------------------- tendril actions ----------------------------- *)
Live(t) == tend[t].exists

\* The application starts the two greenlets of a tendril (TCPTendril._start).
Start(t) ==
  /\ Live(t) /\ tend[t].sock # 0 /\ tend[t].recvPc = "none"
  /\ tend' = [tend EXCEPT ![t] = StartT(@)]
  /\ last' = InitLast
  /\ UNCHANGED <<mgr, managers, running_managers, lis>>

\* The receive greenlet runs for the first time, up to its first sock.recv.
RecvFirst(t) ==
  /\ Live(t) /\ tend[t].recvPc = "spawned"
  /\ tend' = [tend EXCEPT ![t] = RecvLoop(@)]
  /\ last' = InitLast
  /\ UNCHANGED <<mgr, managers, running_managers, lis>>

\* sock.recv returns data: deliver it and go round the loop to the next recv.
RecvData(t, chunk) ==
  /\ Live(t) /\ tend[t].recvPc = "recv"
  /\ Len(tend[t].delivered) < MaxReads
  /\ Len(tend[t].reads) <= MaxReads
  /\ tend' = [tend EXCEPT ![t] = RecvT(@, chunk)]
  /\ last' = InitLast
  /\ UNCHANGED <<mgr, managers, running_managers, lis>>

\* sock.recv returns data and the application, while the frame is delivered
\* to it (line 108), calls close() on the tendril: close() runs in the
\* receive greenlet.  The handle is set, so line 203 kills the running
\* greenlet itself: GreenletExit is raised in it at that call, and the rest
\* of close() (lines 204-214) is not run.
RecvDataClose(t, chunk) ==
  /\ Live(t) /\ tend[t].recvPc = "recv" /\ tend[t].recv_thread # None
  /\ Len(tend[t].delivered) < MaxReads
  /\ Len(tend[t].reads) <= MaxReads
  /\ tend' = [tend EXCEPT ![t] =
                KillRecv(RecvFrameify([@ EXCEPT !.reads = Append(@, chunk)],
                                      chunk))]
  /\ last' = InitLast
  /\ UNCHANGED <<mgr, managers, running_managers, lis>>

\* sock.recv returns the empty string: the peer closed the connection.
RecvEOF(t) ==
  /\ Live(t) /\ tend[t].recvPc = "recv"
  /\ Len(tend[t].reads) <= MaxReads
  /\ tend' = [tend EXCEPT ![t] = RecvT(@, 0)]
  /\ mgr' = BaseClose(mgr, tend[t])
  /\ last' = InitLast
  /\ UNCHANGED <<managers, running_managers, lis>>

\* sock.recv raises: the receive greenlet dies with that exception.
RecvFault(t) ==
  /\ Live(t) /\ tend[t].recvPc = "recv"
  /\ tend' = [tend EXCEPT ![t].recvPc = "dead", ![t].recvExc = "recv_error",
                          ![t].recvLink = "pending"]
  /\ last' = InitLast
  /\ UNCHANGED <<mgr, managers, running_managers, lis>>

\* The send greenlet runs for the first time.
SendFirst(t) ==
  /\ Live(t) /\ tend[t].sendPc = "spawned"
  /\ tend' = [tend EXCEPT ![t] = SendLoop(@)]
  /\ last' = InitLast
  /\ UNCHANGED <<mgr, managers, running_managers, lis>>

\* The send greenlet wakes from _sendbuf_event.wait() and takes its lock.
SendWake(t) ==
  /\ Live(t) /\ tend[t].sendPc = "wait"
  /\ tend[t].sendbuf_event /\ tend[t].send_lock > 0
  /\ tend' = [tend EXCEPT ![t] =
                SendDrain([@ EXCEPT !.send_lock = SemAcquire(@)])]
  /\ last' = InitLast
  /\ UNCHANGED <<mgr, managers, running_managers, lis>>

\* sock.send returns n, 1 <= n <= the length of what it was given.
SendDone(t, n) ==
  /\ Live(t) /\ tend[t].sendPc = "send"
  /\ n \in 1..Len(tend[t].sendArg)
  /\ tend' = [tend EXCEPT ![t] = SendDrain(SendTrim(@, n))]
  /\ last' = InitLast
  /\ UNCHANGED <<mgr, managers, running_managers, lis>>

\* sock.send raises: the send greenlet dies with that exception.
SendFault(t) ==
  /\ Live(t) /\ tend[t].sendPc = "send"
  /\ tend' = [tend EXCEPT ![t].sendPc = "dead", ![t].sendExc = "send_error",
                          ![t].sendLink = "pending", ![t].sendArg = <<>>]
  /\ last' = InitLast
  /\ UNCHANGED <<mgr, managers, running_managers, lis>>

\* The application calls send_frame.
SendFrame(t, f) ==
  /\ Live(t) /\ Len(tend[t].submitted) < 2 * MaxFrames
  /\ tend' = [tend EXCEPT ![t] = SendFrameT(@, f)]
  /\ last' = InitLast
  /\ UNCHANGED <<mgr, managers, running_managers, lis>>

\* The application calls close() from a greenlet other than the tendril's.
Close(t) ==
  /\ Live(t)
  /\ tend' = [tend EXCEPT ![t] = CloseT(@)]
  /\ mgr' = BaseClose(mgr, tend[t])
  /\ last' = Did("close", t, "none")
  /\ UNCHANGED <<managers, running_managers, lis>>

\* The link callback of a dead receive or send greenlet (_thread_error).
ThreadError(t, side) ==
  /\ Live(t)
  /\ IF side = "send" THEN tend[t].sendLink = "pending"
     ELSE tend[t].recvLink = "pending"
  /\ tend' = [tend EXCEPT ![t] = ThreadErrorT(@, side)]
  /\ mgr' = BaseClose(mgr, tend[t])
  /\ last' = InitLast
  /\ UNCHANGED <<managers, running_managers, lis>>

\* wrap(), lines 172-177, with both handles set: request the pause and block
\* in _recv_lock.acquire() (the counter is 0 whenever the greenlets exist).
WrapPause(t) ==
  /\ Live(t) /\ tend[t].wrapPc = "idle"
  /\ tend[t].recv_thread # None /\ tend[t].send_thread # None
  /\ tend[t].recv_lock = 0
  /\ tend' = [tend EXCEPT ![t].restart = FALSE, ![t].wrapPc = "recv_lock"]
  /\ last' = InitLast
  /\ UNCHANGED <<mgr, managers, running_managers, lis>>

\* A swap that sets _restart whether or not the greenlets exist.
WrapSwap_Signal(r) == [r EXCEPT !.sock = @ + 1, !.restart = TRUE]

\* wrap(), line 180: self._sock = wrapper(self._sock); each wrapping gives
\* a new socket object.
WrapSwap(r) == [r EXCEPT !.sock = @ + 1]

\* wrap(), lines 172-190, without both handles set: swap at once.
WrapImmediate(t) ==
  /\ Live(t) /\ tend[t].wrapPc = "idle"
  /\ ~(tend[t].recv_thread # None /\ tend[t].send_thread # None)
  /\ tend[t].sock # 0 /\ tend[t].sock <= MaxWraps
  /\ tend' = [tend EXCEPT ![t] = WrapSwap(@)]
  /\ last' = Did("wrap", t, "none")
  /\ UNCHANGED <<mgr, managers, running_managers, lis>>

\* wrap(), lines 177-190, once _recv_lock can be taken: take both locks,
\* swap the socket, release the locks and set _restart.
WrapResume(t) ==
  /\ Live(t) /\ tend[t].wrapPc = "recv_lock"
  /\ tend[t].recv_lock > 0 /\ tend[t].send_lock > 0
  /\ tend' = [tend EXCEPT ![t].sock = @ + 1, ![t].restart = TRUE,
                          ![t].wrapPc = "idle"]
  /\ last' = Did("wrap", t, "none")
  /\ UNCHANGED <<mgr, managers, running_managers, lis>>

(* ------------------------- manager actions ----------------------------- *)
\* TendrilManager.__init__ for a new object i with identity k.  On the
\* duplicate branch the constructor raises and the object is discarded.
Construct(i, k) ==
  /\ ~mgr[i].exists
  /\ IF InitRaises(managers, k)
     THEN /\ last' = Did("init", i, "ValueError")
          /\ UNCHANGED <<tend, mgr, managers, running_managers, lis>>
     ELSE /\ mgr' = [mgr EXCEPT ![i] = [NoManager EXCEPT !.exists = TRUE,
                                                         !.key = k]]
          /\ managers' = [managers EXCEPT ![k] = i]
          /\ last' = Did("init", i, "none")
          /\ UNCHANGED <<tend, running_managers, lis>>

\* The registries hold weak references: a manager that nothing refers to
\* any more (no listener greenlet or pending link of its own, no tendril)
\* is collected and drops out of both registries.
Collect(i) ==
  /\ mgr[i].exists
  /\ \A l \in Listeners : lis[l].mgr = i =>
        (lis[l].pc = "dead" /\ lis[l].link = "done")
  /\ \A t \in Tendrils : tend[t].mgr # i
  /\ mgr' = [mgr EXCEPT ![i] = NoManager]
  /\ managers' = [k \in Keys |-> IF managers[k] = i THEN 0 ELSE managers[k]]
  /\ running_managers' =
       [k \in Keys |-> IF running_managers[k] = i THEN 0
                       ELSE running_managers[k]]
  /\ lis' = [l \in Listeners |-> IF lis[l].mgr = i THEN NoListener ELSE lis[l]]
  /\ last' = InitLast
  /\ UNCHANGED tend

\* TendrilManager.start(acceptor): acc tells whether an acceptor is given.
StartManager(i, acc) ==
  /\ mgr[i].exists
  /\ IF StartRaises(mgr[i], running_managers)
     THEN /\ last' = Did("start", i, "ValueError")
          /\ UNCHANGED <<tend, mgr, managers, running_managers, lis>>
     ELSE \E l \in Listeners :
          /\ FreshListener(l)
          /\ mgr' = [mgr EXCEPT ![i] = StartM(@, l)]
          /\ running_managers' = [running_managers EXCEPT ![mgr[i].key] = i]
          /\ lis' = [lis EXCEPT ![l] = [NoListener EXCEPT !.mgr = i,
                                          !.pc = "spawned", !.acceptor = acc]]
          /\ last' = Did("start", i, "none")
          /\ UNCHANGED <<tend, managers>>

\* TendrilManager.stop(), called by the application.
Stop(i) ==
  /\ mgr[i].exists
  /\ running_managers' = DelRunning(running_managers, mgr[i].key)
  /\ mgr' = [mgr EXCEPT ![i] = StopM(@)]
  /\ last' = Did("stop", i, "none")
  /\ UNCHANGED <<tend, managers, lis>>

\* The link of a dead listener greenlet: stop(thread).
StopLink(l) ==
  /\ lis[l].link = "pending"
  /\ running_managers' = DelRunning(running_managers, mgr[lis[l].mgr].key)
  /\ mgr' = [mgr EXCEPT ![lis[l].mgr] = StopM(@)]
  /\ lis' = [lis EXCEPT ![l].link = "done"]
  /\ last' = InitLast
  /\ UNCHANGED <<tend, managers>>

\* TendrilManager.shutdown().  With no listener handle, line 208 raises
\* AttributeError after the registry entry has been deleted.
Shutdown(i) ==
  /\ mgr[i].exists
  /\ running_managers' = DelRunning(running_managers, mgr[i].key)
  /\ IF mgr[i].listen_thread = 0
     THEN /\ last' = Did("shutdown", i, "AttributeError")
          /\ UNCHANGED <<tend, mgr, managers, lis>>
     ELSE /\ lis' = [lis EXCEPT ![mgr[i].listen_thread] = KillListener(@)]
          /\ tend' = [t \in Tendrils |->
                        IF t \in TableRange(mgr[i].tendrils)
                        THEN CloseT(tend[t]) ELSE tend[t]]
          /\ mgr' = [mgr EXCEPT ![i].tendrils = EmptyTable,
                                ![i].running = FALSE,
                                ![i].listen_thread = 0]
          /\ last' = Did("shutdown", i, "none")
          /\ UNCHANGED managers

\* The listener greenlet runs for the first time: without an acceptor it
\* sleeps for ever; with one it sets up the listening socket and blocks in
\* accept().
ListenerFirst(l) ==
  /\ lis[l].pc = "spawned"
  /\ lis' = [lis EXCEPT ![l].pc = IF lis[l].acceptor THEN "accept"
                                  ELSE "sleep",
                        ![l].err_thresh = 0]
  /\ last' = InitLast
  /\ UNCHANGED <<tend, mgr, managers, running_managers>>

\* Setting up the listening socket raises (lines 274-298): the listener
\* dies with that exception.
ListenerSetupFault(l) ==
  /\ lis[l].pc = "spawned" /\ lis[l].acceptor
  /\ lis' = [lis EXCEPT ![l].pc = "dead", ![l].exc = "error",
                        ![l].link = "pending"]
  /\ last' = InitLast
  /\ UNCHANGED <<tend, mgr, managers, running_managers>>

\* accept() returns a connection from address a, the tendril t is built for
\* it and the acceptor returns normally (lines 304-312, 324-328).
AcceptOk(l, t, a) ==
  /\ lis[l].pc = "accept"
  /\ FreshTendril(t)
  /\ tend' = [tend EXCEPT ![t] = NewTendril(lis[l].mgr, a)]
  /\ mgr' = [mgr EXCEPT ![lis[l].mgr].tendrils = TrackTendril(@, a, t)]
  /\ lis' = [lis EXCEPT ![l].err_thresh = ErrAfterAccept(@),
                        ![l].attempts = @ + 1, ![l].accepted = @ + 1,
                        ![l].tracked = @ + 1, ![l].streak = 0]
  /\ last' = InitLast
  /\ UNCHANGED <<managers, running_managers>>

\* accept() or the acceptor raises (lines 313-322): count the fault, and
\* re-raise once the counter reaches the threshold.
AcceptFail(l) ==
  /\ lis[l].pc = "accept"
  /\ lis' = [lis EXCEPT ![l].err_thresh = ErrAfterFault(@),
                        ![l].attempts = @ + 1, ![l].streak = @ + 1,
                        ![l].pc = IF Aborts(ErrAfterFault(lis[l].err_thresh))
                                  THEN "dead" ELSE "accept",
                        ![l].exc = IF Aborts(ErrAfterFault(lis[l].err_thresh))
                                   THEN "error" ELSE "none",
                        ![l].link = IF Aborts(ErrAfterFault(lis[l].err_thresh))
                                    THEN "pending" ELSE "none"]
  /\ last' = InitLast
  /\ UNCHANGED <<tend, mgr, managers, running_managers>>

\* accept() returns a connection and the acceptor raises for it (lines
\* 304-322): the raw connection is closed, the fault counted, and the loop
\* continues or, at the threshold, re-raises.  The tendril built for the
\* connection is dropped with the iteration.
AcceptorFault(l) ==
  /\ lis[l].pc = "accept"
  /\ lis' = [lis EXCEPT ![l].err_thresh = ErrAfterFault(@),
                        ![l].attempts = @ + 1, ![l].streak = @ + 1,
                        ![l].rejected = @ + 1,
                        ![l].cli = CliClosed(CliAccepted(@)),
                        ![l].pc = IF Aborts(ErrAfterFault(lis[l].err_thresh))
                                  THEN "dead" ELSE "accept",
                        ![l].exc = IF Aborts(ErrAfterFault(lis[l].err_thresh))
                                   THEN "error" ELSE "none",
                        ![l].link = IF Aborts(ErrAfterFault(lis[l].err_thresh))
                                    THEN "pending" ELSE "none"]
  /\ last' = InitLast
  /\ UNCHANGED <<tend, mgr, managers, running_managers>>

\* connect() without the running check.
ConnectRaises_Never(m) == FALSE

\* TendrilManager.connect, lines 247-248: the common sanity check.
ConnectRaises(m) == ~m.running

\* A fault path of connect() that leaves the socket open.
ConnectCleanup_Leak(r) == [NoTendril EXCEPT !.sock = r.sock]

\* TCPTendrilManager.connect, lines 244-255: the socket is closed and
\* nothing of the attempt is kept.
ConnectCleanup(r) == NoTendril

\* TCPTendrilManager.connect, lines 221-233: the running check, the socket,
\* bind, and the blocking sock.connect(target).
ConnectBegin(i, t, a) ==
  /\ mgr[i].exists
  /\ IF ConnectRaises(mgr[i])
     THEN /\ last' = Did("connect", i, "ValueError")
          /\ UNCHANGED <<tend, mgr, managers, running_managers, lis>>
     ELSE /\ FreshTendril(t)
          /\ tend' = [tend EXCEPT ![t].conn = "connecting", ![t].mgr = i,
                                  ![t].addr = a, ![t].sock = 1]
          /\ last' = InitLast
          /\ UNCHANGED <<mgr, managers, running_managers, lis>>

\* connect, lines 235-261: sock.connect returned, the tendril is built, the
\* acceptor returns normally and the tendril is tracked.
ConnectDone(t) ==
  /\ tend[t].conn = "connecting"
  /\ tend' = [tend EXCEPT ![t] = NewTendril(tend[t].mgr, tend[t].addr)]
  /\ mgr' = [mgr EXCEPT ![tend[t].mgr].tendrils =
                          TrackTendril(@, tend[t].addr, t)]
  /\ last' = Did("connect", tend[t].mgr, "none")
  /\ UNCHANGED <<managers, running_managers, lis>>

\* connect, lines 244-255: a step of the set-up raises; the socket is closed
\* and the exception re-raised.
ConnectFault(t) ==
  /\ tend[t].conn = "connecting"
  /\ tend' = [tend EXCEPT ![t] = ConnectCleanup(@)]
  /\ last' = Did("connect", tend[t].mgr, "error")
  /\ UNCHANGED <<mgr, managers, running_managers, lis>>

\* connect() to a target of another address family than the manager's.
\* Neither TendrilManager.connect nor TCPTendrilManager.connect compares the
\* families: after the running check the socket is created with the
\* manager's family and bound, sock.connect(target) raises at once, and the
\* fault path closes the socket and re-raises that socket error.
ConnectMismatch(i) ==
  /\ mgr[i].exists
  /\ last' = Did("connect_mismatch", i,
                 IF ConnectRaises(mgr[i]) THEN "ValueError" ELSE "error")
  /\ UNCHANGED <<tend, mgr, managers, running_managers, lis>>

\* The life of a tendril without its data: start, end of stream, faults,
\* close and the completion handlers.
LifecycleNext ==
  \E t \in Tendrils :
    \/ Start(t)
    \/ RecvFirst(t)
    \/ RecvEOF(t)
    \/ RecvFault(t)
    \/ SendFirst(t)
    \/ Close(t)
    \/ \E side \in {"recv", "send"} : ThreadError(t, side)

(* ------------------ one manager and its connections --------------------- *)
\* Manager 1 was constructed with identity 0 and started with an acceptor;
\* its listener greenlet has been spawned and has not run yet.
Init ==
  /\ tend = [t \in Tendrils |-> NoTendril]
  /\ mgr = [i \in Managers |->
              IF i = 1
              THEN [NoManager EXCEPT !.exists = TRUE, !.running = TRUE,
                                     !.listen_thread = 1]
              ELSE NoManager]
  /\ managers = [k \in Keys |-> IF k = 0 THEN 1 ELSE 0]
  /\ running_managers = [k \in Keys |-> IF k = 0 THEN 1 ELSE 0]
  /\ lis = [l \in Listeners |->
              IF l = 1
              THEN [NoListener EXCEPT !.mgr = 1, !.pc = "spawned",
                                      !.acceptor = TRUE]
              ELSE NoListener]
  /\ last = Did("start", 1, "none")

Next ==
  \/ \E l \in Listeners : ListenerFirst(l)
  \/ \E l \in Listeners, t \in Tendrils, a \in Addrs : AcceptOk(l, t, a)
  \/ \E i \in Managers, t \in Tendrils, a \in Addrs : ConnectBegin(i, t, a)
  \/ \E t \in Tendrils : ConnectDone(t)
  \/ \E t \in Tendrils : ConnectFault(t)
  \/ \E l \in Listeners : StopLink(l)
  \/ \E i \in Managers : Shutdown(i)
  \/ LifecycleNext

Spec == Init /\ [][Next]_vars

(* ------------------- the registries and the lifecycle ------------------- *)
\* The registries as the module is loaded: no manager exists.  Managers are
\* constructed, started without an acceptor (the listener greenlet sleeps),
\* stopped, shut down and collected.
InitReg ==
  /\ tend = [t \in Tendrils |-> NoTendril]
  /\ mgr = [i \in Managers |-> NoManager]
  /\ managers = [k \in Keys |-> 0]
  /\ running_managers = [k \in Keys |-> 0]
  /\ lis = [l \in Listeners |-> NoListener]
  /\ last = InitLast

\* get_manager, line 65: proto.tolower().  A string has no method of that
\* name (the method is lower()), so the call raises AttributeError for every
\* protocol name, whatever its letter case.
ToLowerRaises(proto) == TRUE

\* get_manager, line 66: endpoint or ('', 0); -1 is None, identity 0 is the
\* wildcard endpoint.
NormEndpoint(e) == IF e = -1 THEN 0 ELSE e

\* TendrilManager.get_manager(proto, endpoint): normalise, return the
\* registered manager, or look the class up (found tells whether an entry
\* point loads) and construct manager i.
GetManager(proto, e, i, found) ==
  IF ToLowerRaises(proto)
  THEN /\ last' = Did("get_manager", e, "AttributeError")
       /\ UNCHANGED <<tend, mgr, managers, running_managers, lis>>
  ELSE IF managers[NormEndpoint(e)] # 0
  THEN /\ last' = DidRet("get_manager", e, "none", managers[NormEndpoint(e)])
       /\ UNCHANGED <<tend, mgr, managers, running_managers, lis>>
  ELSE IF ~found
  THEN /\ last' = Did("get_manager", e, "ValueError")
       /\ UNCHANGED <<tend, mgr, managers, running_managers, lis>>
  ELSE /\ ~mgr[i].exists
       /\ mgr' = [mgr EXCEPT ![i] = [NoManager EXCEPT
                                       !.exists = TRUE,
                                       !.key = NormEndpoint(e)]]
       /\ managers' = [managers EXCEPT ![NormEndpoint(e)] = i]
       /\ last' = DidRet("get_manager", e, "none", i)
       /\ UNCHANGED <<tend, running_managers, lis>>

RegNext ==
  \/ \E i \in Managers, k \in Keys : Construct(i, k)
  \/ \E i \in Managers : Collect(i)
  \/ \E i \in Managers : StartManager(i, FALSE)
  \/ \E l \in Listeners : ListenerFirst(l)
  \/ \E i \in Managers : Stop(i)
  \/ \E l \in Listeners : StopLink(l)
  \/ \E i \in Managers : Shutdown(i)

SpecReg == InitReg /\ [][RegNext]_vars

\* The registry with get_manager as a way to find or make a manager.
ResolveNext ==
  \/ \E i \in Managers, k \in Keys : Construct(i, k)
  \/ \E i \in Managers : Collect(i)
  \/ \E i \in Managers : StartManager(i, FALSE)
  \/ \E i \in Managers : Stop(i)
  \/ \E proto \in {"tcp", "TCP"}, e \in {-1} \cup Keys, i \in Managers,
        found \in BOOLEAN : GetManager(proto, e, i, found)

SpecResolve == InitReg /\ [][ResolveNext]_vars

(* ------------------- start and stop as the tests set up ----------------- *)
\* Manager 1 exists with identity 0 and has no listener; its running flag
\* and its entry in the running registry are each set or not, the four set-ups
\* of the unit tests of start() and stop() (test_start, test_start_running,
\* test_start_identical, test_stop, test_stop_desync).
InitStart ==
  /\ tend = [t \in Tendrils |-> NoTendril]
  /\ \E run \in BOOLEAN :
       mgr = [i \in Managers |->
                IF i = 1 THEN [NoManager EXCEPT !.exists = TRUE, !.running = run]
                ELSE NoManager]
  /\ managers = [k \in Keys |-> IF k = 0 THEN 1 ELSE 0]
  /\ \E reg \in {0, 1} : running_managers = [k \in Keys |-> IF k = 0 THEN reg ELSE 0]
  /\ lis = [l \in Listeners |-> NoListener]
  /\ last = InitLast

StartNext ==
  \/ \E i \in Managers, acc \in BOOLEAN : StartManager(i, acc)
  \/ \E i \in Managers : Stop(i)
  \/ \E l \in Listeners : StopLink(l)
  \/ \E l \in Listeners : ListenerFirst(l)
  \/ \E l \in Listeners : ListenerSetupFault(l)

SpecStart == InitStart /\ [][StartNext]_vars

(* --------------------------- the accept loop ---------------------------- *)
\* The accept loop starts from the same state: manager 1 started with an
\* acceptor, its listener spawned.
AcceptNext ==
  \/ \E l \in Listeners : ListenerFirst(l)
  \/ \E l \in Listeners : ListenerSetupFault(l)
  \/ \E l \in Listeners, t \in Tendrils, a \in Addrs : AcceptOk(l, t, a)
  \/ \E l \in Listeners : AcceptFail(l)
  \/ \E l \in Listeners : StopLink(l)
  \/ \E t \in Tendrils : Close(t)

SpecAccept == Init /\ [][AcceptNext]_vars

\* The accept loop with an acceptor that may raise for a connection.
RejectNext ==
  \/ \E l \in Listeners : ListenerFirst(l)
  \/ \E l \in Listeners, t \in Tendrils, a \in Addrs : AcceptOk(l, t, a)
  \/ \E l \in Listeners : AcceptFail(l)
  \/ \E l \in Listeners : AcceptorFault(l)
  \/ \E l \in Listeners : StopLink(l)

SpecReject == Init /\ [][RejectNext]_vars

(* ------------- the accept loop with stop() and shutdown() -------------- *)
\* The accept loop of manager 1 together with the application's stop() and
\* shutdown().  A link callback of a dead greenlet is run by the hub as soon
\* as the hub gets control: it is not put off for ever.
\* manager[addr]
Lookup(i, a) ==
  /\ mgr[i].exists
  /\ last' = DidRet("getitem", i,
                    IF GetItem(mgr[i].tendrils, a) = 0 THEN "KeyError"
                    ELSE "none",
                    GetItem(mgr[i].tendrils, a))
  /\ UNCHANGED <<tend, mgr, managers, running_managers, lis>>

\* Outbound connections only: connect() in its two steps and its fault
\* paths, against shutdown() of the manager and close() of the tendrils.
ConnectNext ==
  \/ \E i \in Managers, t \in Tendrils, a \in Addrs : ConnectBegin(i, t, a)
  \/ \E t \in Tendrils : ConnectDone(t)
  \/ \E t \in Tendrils : ConnectFault(t)
  \/ \E i \in Managers : ConnectMismatch(i)
  \/ \E i \in Managers, a \in Addrs : Lookup(i, a)
  \/ \E t \in Tendrils : Close(t)
  \/ \E l \in Listeners : StopLink(l)
  \/ \E i \in Managers : Shutdown(i)

SpecConnect == Init /\ [][ConnectNext]_vars

StopNext ==
  \/ AcceptNext
  \/ \E i \in Managers : Stop(i)
  \/ \E i \in Managers : Shutdown(i)

SpecStop == Init /\ [][StopNext]_vars

\* The ways a listener greenlet exits (a fault in the set-up, the fault
\* threshold, a kill by shutdown()) and what follows, with the link callback
\* scheduled fairly: gevent runs a dead greenlet's links.
ExitNext ==
  \/ \E l \in Listeners : ListenerFirst(l)
  \/ \E l \in Listeners : ListenerSetupFault(l)
  \/ \E l \in Listeners, t \in Tendrils, a \in Addrs : AcceptOk(l, t, a)
  \/ \E l \in Listeners : AcceptFail(l)
  \/ \E l \in Listeners : StopLink(l)
  \/ \E i \in Managers : Stop(i)
  \/ \E i \in Managers : Shutdown(i)

SpecStopFair ==
  Init /\ [][ExitNext]_vars /\ WF_vars(\E l \in Listeners : StopLink(l))

(* ------------------- the datagram manager and tendril ------------------ *)
\* UDPTendril.__init__: the tendril owns no socket.
NewUDPTendril(m, a) ==
  [NoTendril EXCEPT !.exists = TRUE, !.mgr = m, !.addr = a,
                    !.send_framer = DefaultFramer,
                    !.recv_framer = DefaultFramer]

\* A send_frame that lets a transmission fault through.
SendOutcome_Raise(sock, fault) ==
  IF sock = 0 THEN "ValueError" ELSE IF fault THEN "error" ELSE "none"

\* UDPTendril.send_frame: what the caller sees, given the manager's shared
\* socket (0 is None) and whether sendto() faults.
SendOutcome(sock, fault) == IF sock = 0 THEN "ValueError" ELSE "none"

\* A connect() that tracks the tendril whatever the acceptor says.
ConnectTable_Always(tab, a, t, rej) == TrackTendril(tab, a, t)

\* UDPTendrilManager.connect: the tracked table after the acceptor has run,
\* rej telling whether it raised RejectConnection.
ConnectTable(tab, a, t, rej) == IF rej THEN tab ELSE TrackTendril(tab, a, t)

\* The listener of a running datagram manager creates the shared socket.
UDPBind(i) ==
  /\ mgr[i].exists /\ mgr[i].running /\ mgr[i].sock = 0
  /\ mgr' = [mgr EXCEPT ![i].sock = 1]
  /\ last' = InitLast
  /\ UNCHANGED <<tend, managers, running_managers, lis>>

\* UDPTendrilManager.stop: the base stop(), and the shared socket is dropped.
UDPStop(i) ==
  /\ mgr[i].exists
  /\ running_managers' = DelRunning(running_managers, mgr[i].key)
  /\ mgr' = [mgr EXCEPT ![i] = [StopM(@) EXCEPT !.sock = 0]]
  /\ last' = Did("stop", i, "none")
  /\ UNCHANGED <<tend, managers, lis>>

\* UDPTendrilManager.connect(target, acceptor): the common check, the
\* tendril, the acceptor (which may raise RejectConnection), tracking.
UDPConnect(i, t, a, rej) ==
  /\ mgr[i].exists
  /\ IF ConnectRaises(mgr[i])
     THEN /\ last' = Did("udp_connect", i, "ValueError")
          /\ UNCHANGED <<tend, mgr>>
     ELSE /\ FreshTendril(t)
          /\ tend' = [tend EXCEPT ![t] = IF rej THEN @
                                         ELSE NewUDPTendril(i, a)]
          /\ mgr' = [mgr EXCEPT ![i].tendrils = ConnectTable(@, a, t, rej)]
          /\ last' = DidRet("udp_connect", i, "none", IF rej THEN 0 ELSE t)
  /\ UNCHANGED <<managers, running_managers, lis>>

\* UDPTendril.send_frame(f): ValueError without a shared socket; otherwise
\* one sendto(), whose fault is swallowed.
UDPSendFrame(t, f, fault) ==
  /\ tend[t].exists /\ tend[t].mgr # 0
  /\ Len(tend[t].submitted) < MaxFrames
  /\ LET sock == mgr[tend[t].mgr].sock
     IN /\ last' = Did("udp_send_frame", t, SendOutcome(sock, fault))
        /\ tend' = [tend EXCEPT
                      ![t].submitted = IF sock = 0 THEN @ ELSE Append(@, f),
                      ![t].written = IF sock = 0 \/ fault THEN @
                                     ELSE Append(@, f)]
  /\ UNCHANGED <<mgr, managers, running_managers, lis>>

\* UDPTendril.close: only the base close.
UDPClose(t) ==
  /\ tend[t].exists
  /\ mgr' = BaseClose(mgr, tend[t])
  /\ last' = Did("close", t, "none")
  /\ UNCHANGED <<tend, managers, running_managers, lis>>

\* A datagram manager, constructed and started, that has connected tendril 1
\* to address 0; its listener has not yet bound the shared socket.
InitUDP ==
  /\ tend = [t \in Tendrils |->
               IF t = 1 THEN NewUDPTendril(1, 0) ELSE NoTendril]
  /\ mgr = [i \in Managers |->
              IF i = 1
              THEN [NoManager EXCEPT !.exists = TRUE, !.running = TRUE,
                                     !.tendrils =
                                        ConnectTable(EmptyTable, 0, 1, FALSE)]
              ELSE NoManager]
  /\ managers = [k \in Keys |-> IF k = 0 THEN 1 ELSE 0]
  /\ running_managers = [k \in Keys |-> IF k = 0 THEN 1 ELSE 0]
  /\ lis = [l \in Listeners |-> NoListener]
  /\ last = DidRet("udp_connect", 1, "none", 1)

\* Sending on the connected datagram tendril.
UDPSendNext ==
  \/ \E i \in Managers : UDPBind(i)
  \/ \E i \in Managers : UDPStop(i)
  \/ \E t \in Tendrils, f \in Frames, fault \in BOOLEAN :
       UDPSendFrame(t, f, fault)
  \/ \E t \in Tendrils : UDPClose(t)

SpecUDPSend == InitUDP /\ [][UDPSendNext]_vars

\* Connections of the datagram manager.
UDPConnectNext ==
  \/ \E i \in Managers : UDPBind(i)
  \/ \E i \in Managers : UDPStop(i)
  \/ \E i \in Managers, t \in Tendrils, a \in Addrs, rej \in BOOLEAN :
       UDPConnect(i, t, a, rej)
  \/ \E i \in Managers, a \in Addrs : Lookup(i, a)
  \/ \E t \in Tendrils : UDPClose(t)

\* A datagram manager, constructed and started, with no tendril yet.
InitUDPConnect ==
  /\ tend = [t \in Tendrils |-> NoTendril]
  /\ mgr = [i \in Managers |->
              IF i = 1
              THEN [NoManager EXCEPT !.exists = TRUE, !.running = TRUE]
              ELSE NoManager]
  /\ managers = [k \in Keys |-> IF k = 0 THEN 1 ELSE 0]
  /\ running_managers = [k \in Keys |-> IF k = 0 THEN 1 ELSE 0]
  /\ lis = [l \in Listeners |-> NoListener]
  /\ last = Did("start", 1, "none")

SpecUDPConnect == InitUDPConnect /\ [][UDPConnectNext]_vars

(* ----------------------- framers of one tendril ------------------------ *)
\* tendril.send_framer = v
SendFramerSet(t, v) ==
  /\ tend[t].exists
  /\ IF FramerRaises(v)
     THEN /\ last' = Did("set_send_framer", t, "ValueError")
          /\ UNCHANGED tend
     ELSE /\ tend' = [tend EXCEPT ![t] = SetSendFramer(@, v)]
          /\ last' = Did("set_send_framer", t, "none")
  /\ UNCHANGED <<mgr, managers, running_managers, lis>>

\* del tendril.send_framer
SendFramerDel(t) ==
  /\ tend[t].exists
  /\ tend' = [tend EXCEPT ![t] = SetSendFramer(@, DefaultFramer)]
  /\ last' = Did("del_send_framer", t, "none")
  /\ UNCHANGED <<mgr, managers, running_managers, lis>>

\* tendril.recv_framer = v
RecvFramerSet(t, v) ==
  /\ tend[t].exists
  /\ IF FramerRaises(v)
     THEN /\ last' = Did("set_recv_framer", t, "ValueError")
          /\ UNCHANGED tend
     ELSE /\ tend' = [tend EXCEPT ![t] = SetRecvFramer(@, v)]
          /\ last' = Did("set_recv_framer", t, "none")
  /\ UNCHANGED <<mgr, managers, running_managers, lis>>

\* del tendril.recv_framer
RecvFramerDel(t) ==
  /\ tend[t].exists
  /\ tend' = [tend EXCEPT ![t] = SetRecvFramer(@, DefaultFramer)]
  /\ last' = Did("del_recv_framer", t, "none")
  /\ UNCHANGED <<mgr, managers, running_managers, lis>>

\* The send framer serialises a frame with the send state.
SendFramerUse(t) ==
  /\ tend[t].exists
  /\ tend' = [tend EXCEPT ![t].send_framer_state =
                            FramerUse(tend[t].send_framer, @)]
  /\ last' = InitLast
  /\ UNCHANGED <<mgr, managers, running_managers, lis>>

\* The receive framer consumes received data with the receive state.
RecvFramerUse(t) ==
  /\ tend[t].exists
  /\ tend' = [tend EXCEPT ![t].recv_framer_state =
                            FramerUse(tend[t].recv_framer, @)]
  /\ last' = InitLast
  /\ UNCHANGED <<mgr, managers, running_managers, lis>>

FramerNext ==
  \E t \in Tendrils :
    \/ \E v \in 0..NFramers : SendFramerSet(t, v)
    \/ SendFramerDel(t)
    \/ \E v \in 0..NFramers : RecvFramerSet(t, v)
    \/ RecvFramerDel(t)
    \/ SendFramerUse(t)
    \/ RecvFramerUse(t)

(* ---------------- the I/O engine of one accepted tendril ---------------- *)
\* Manager 1 was constructed and started, its listener accepted tendril 1
\* from address 0 and tracks it.
InitIO ==
  /\ tend = [t \in Tendrils |-> IF t = 1 THEN NewTendril(1, 0) ELSE NoTendril]
  /\ mgr = [i \in Managers |->
              IF i = 1
              THEN [NoManager EXCEPT !.exists = TRUE, !.running = TRUE,
                                     !.listen_thread = 1,
                                     !.tendrils = TrackTendril(EmptyTable, 0, 1)]
              ELSE NoManager]
  /\ managers = [k \in Keys |-> IF k = 0 THEN 1 ELSE 0]
  /\ running_managers = [k \in Keys |-> IF k = 0 THEN 1 ELSE 0]
  /\ lis = [l \in Listeners |->
              IF l = 1
              THEN [NoListener EXCEPT !.mgr = 1, !.pc = "accept",
                                      !.acceptor = TRUE, !.attempts = 1,
                                      !.accepted = 1, !.tracked = 1]
              ELSE NoListener]
  /\ last = InitLast

\* The steps of the tendril's greenlets and of the application that holds it,
\* and the manager's shutdown().
TendrilNext ==
  \/ \E t \in Tendrils :
       \/ Start(t)
       \/ RecvFirst(t)
       \/ \E c \in Chunks : RecvData(t, c)
       \/ RecvEOF(t)
       \/ RecvFault(t)
       \/ SendFirst(t)
       \/ SendWake(t)
       \/ \E n \in 1..(2 * MaxFrames) : SendDone(t, n)
       \/ SendFault(t)
       \/ \E f \in Frames : SendFrame(t, f)
       \/ Close(t)
       \/ \E side \in {"recv", "send"} : ThreadError(t, side)
       \/ WrapPause(t)
       \/ WrapImmediate(t)
  \/ \E i \in Managers : Shutdown(i)

SpecIO == InitIO /\ [][TendrilNext]_vars

\* The started tendril with an application that sends frames and calls
\* wrap(), under gevent's scheduling: a greenlet that can run is run, a
\* socket read or write that is pending completes, and a wrap() that can
\* take its locks does (WrapResume, enabled in no reachable state: no
\* greenlet leaves _recv_lock above 0 across a switch).
WrapNext ==
  \E t \in Tendrils :
    \/ Start(t)
    \/ RecvFirst(t)
    \/ \E c \in Chunks : RecvData(t, c)
    \/ SendFirst(t)
    \/ SendWake(t)
    \/ \E n \in 1..(2 * MaxFrames) : SendDone(t, n)
    \/ \E f \in Frames : SendFrame(t, f)
    \/ WrapPause(t)

SpecWrapFair ==
  /\ InitIO /\ [][WrapNext]_vars
  /\ \A t \in Tendrils :
        /\ WF_vars(RecvFirst(t))
        /\ WF_vars(\E c \in Chunks : RecvData(t, c))
        /\ WF_vars(SendFirst(t))
        /\ WF_vars(SendWake(t))
        /\ WF_vars(\E n \in 1..(2 * MaxFrames) : SendDone(t, n))
        /\ WF_vars(WrapResume(t))

\* The tendril with an application that sends frames, may request a wrap
\* and may close the tendril, the send greenlet being scheduled fairly and
\* the socket completing every write it is given.
SendNext ==
  \E t \in Tendrils :
    \/ Start(t)
    \/ RecvFirst(t)
    \/ SendFirst(t)
    \/ SendWake(t)
    \/ \E n \in 1..(2 * MaxFrames) : SendDone(t, n)
    \/ \E f \in Frames : SendFrame(t, f)
    \/ WrapPause(t)
    \/ Close(t)
    \/ \E side \in {"recv", "send"} : ThreadError(t, side)

SpecSendFair ==
  /\ InitIO /\ [][SendNext]_vars
  /\ \A t \in Tendrils :
        /\ WF_vars(SendFirst(t))
        /\ WF_vars(SendWake(t))
        /\ WF_vars(\E n \in 1..(2 * MaxFrames) : SendDone(t, n))

\* The tendril with an application that may call close() from its frame
\* callback, that is, inside the receive greenlet.  The hub runs the link
\* callbacks of a dead greenlet: weak fairness on the completion handlers.
SelfCloseNext ==
  \E t \in Tendrils :
    \/ Start(t)
    \/ RecvFirst(t)
    \/ \E c \in Chunks : RecvData(t, c)
    \/ \E c \in Chunks : RecvDataClose(t, c)
    \/ SendFirst(t)
    \/ SendWake(t)
    \/ \E n \in 1..(2 * MaxFrames) : SendDone(t, n)
    \/ \E f \in Frames : SendFrame(t, f)
    \/ Close(t)
    \/ \E side \in {"recv", "send"} : ThreadError(t, side)

SpecSelfClose ==
  /\ InitIO /\ [][SelfCloseNext]_vars
  /\ \A t \in Tendrils, side \in {"recv", "send"} :
        WF_vars(ThreadError(t, side))

\* The tendril as the completion handler finds it when a greenlet of one
\* side has exited: exc is the greenlet's outcome ("none" for a normal
\* return), held tells whether the tendril's handle still refers to it.
Exited(r, side, exc, held) ==
  IF side = "recv"
  THEN [r EXCEPT !.recvPc = "dead", !.recvExc = exc, !.recvLink = "pending",
                 !.recv_thread = IF held THEN Greenlet ELSE None]
  ELSE [r EXCEPT !.sendPc = "dead", !.sendExc = exc, !.sendLink = "pending",
                 !.send_thread = IF held THEN Greenlet ELSE None]

\* The accepted tendril, started, with one greenlet exited in each of the
\* ways _thread_error distinguishes and its completion handler still to run.
InitHandler ==
  /\ \E side \in {"recv", "send"}, held \in BOOLEAN,
        exc \in {"none", "GreenletExit", "error"} :
       tend = [t \in Tendrils |->
                 IF t = 1
                 THEN Exited(StartT(NewTendril(1, 0)), side, exc, held)
                 ELSE NoTendril]
  /\ mgr = [i \in Managers |->
              IF i = 1
              THEN [NoManager EXCEPT !.exists = TRUE, !.running = TRUE,
                                     !.listen_thread = 1,
                                     !.tendrils = TrackTendril(EmptyTable, 0, 1)]
              ELSE NoManager]
  /\ managers = [k \in Keys |-> IF k = 0 THEN 1 ELSE 0]
  /\ running_managers = [k \in Keys |-> IF k = 0 THEN 1 ELSE 0]
  /\ lis = [l \in Listeners |->
              IF l = 1
              THEN [NoListener EXCEPT !.mgr = 1, !.pc = "accept",
                                      !.acceptor = TRUE, !.attempts = 1,
                                      !.accepted = 1, !.tracked = 1]
              ELSE NoListener]
  /\ last = InitLast

\* The steps of the started tendril's greenlets, of their completion
\* handlers and of the application, and the manager's shutdown().
HandlerNext ==
  \/ \E t \in Tendrils :
       \/ RecvFirst(t)
       \/ \E c \in Chunks : RecvData(t, c)
       \/ RecvEOF(t)
       \/ RecvFault(t)
       \/ SendFirst(t)
       \/ SendWake(t)
       \/ \E n \in 1..(2 * MaxFrames) : SendDone(t, n)
       \/ SendFault(t)
       \/ \E f \in Frames : SendFrame(t, f)
       \/ Close(t)
       \/ \E side \in {"recv", "send"} : ThreadError(t, side)
       \/ WrapPause(t)
       \/ WrapImmediate(t)
  \/ \E i \in Managers : Shutdown(i)

SpecHandler == InitHandler /\ [][HandlerNext]_vars

\* The framers of the accepted tendril, set and used by the application and
\* the I/O engine.
SpecFramer == InitIO /\ [][FramerNext]_vars

(* ============================== properties ============================== *)
\* The connection of tendril record r terminated through its I/O engine: the
\* receive greenlet read EOF, or a greenlet died of a socket fault.
EngineTerminated(r) ==
  \/ \E i \in 1..Len(r.reads) : r.reads[i] = 0
  \/ r.recvExc = "recv_error"
  \/ r.sendExc = "send_error"

\* Nothing of tendril record r is left to run: both greenlets are dead and
\* their completion handlers have run.
Quiescent(r) ==
  /\ r.recvPc = "dead" /\ r.recvLink = "done"
  /\ r.sendPc = "dead" /\ r.sendLink = "done"

NoErrorNotifications(r) == SelectSeq(r.notified, LAMBDA e : e = None)

Tracked(i) == TableRange(mgr[i].tendrils)

(* C1: when wrap() is called with both greenlets started, the socket is     *)
(* replaced only with both greenlets parked, and from the pause request     *)
(* until resume is signalled neither greenlet starts a socket read or a     *)
(* socket write.                                                            *)
C1_SwapWhileParked ==
  [][\A t \in Tendrils :
       /\ (tend[t].recv_thread # None /\ tend[t].send_thread # None
           /\ tend'[t].sock # tend[t].sock /\ tend'[t].sock # 0)
             => (tend[t].recvPc # "recv" /\ tend[t].sendPc # "send")
       /\ (tend[t].wrapPc = "recv_lock" /\ tend'[t].wrapPc = "recv_lock")
             => /\ ~(tend'[t].recvPc = "recv"
                     /\ Len(tend'[t].reads) > Len(tend[t].reads))
                /\ ~(tend'[t].sendPc = "send" /\ tend[t].sendPc # "send")]_vars

(* C2: a tendril whose connection terminated through its I/O engine gets    *)
(* the application's close notification exactly once: never twice, and once *)
(* everything has run, not zero times.                                      *)
C2_NotifiedExactlyOnce ==
  \A t \in Tendrils :
    /\ Len(tend[t].notified) <= 1
    /\ (EngineTerminated(tend[t]) /\ Quiescent(tend[t]))
          => Len(tend[t].notified) = 1

(* C3: when the socket reads give two non-empty chunks and then the empty   *)
(* string, exactly those two chunks are handed to frame delivery in read    *)
(* order, the receive path gives exactly one close notification, with no    *)
(* error, and afterwards there is no further read and no further delivery.  *)
C3_TwoChunksThenEOF ==
  \A t \in Tendrils :
    LET r == tend[t] IN
    (Len(r.reads) >= 3 /\ r.reads[1] # 0 /\ r.reads[2] # 0 /\ r.reads[3] = 0)
      => /\ r.reads = <<r.reads[1], r.reads[2], 0>>
         /\ r.delivered = <<r.reads[1], r.reads[2]>>
         /\ r.recvPc = "dead"
         /\ NoErrorNotifications(r) = <<None>>
         /\ r.notified[1] = None
         /\ r.sendExc # "send_error" => r.notified = <<None>>

C3_Witness ==
  \E t \in Tendrils :
    /\ tend[t].reads = <<1, 2, 0>>
    /\ tend[t].recvLink = "done" /\ tend[t].sendLink = "done"
    /\ tend[t].notified = <<None>>

(* C4: at most one manager is registered per identity; every registry entry *)
(* points at the live manager of that identity, and a construction that     *)
(* finds its identity registered raises ValueError, creates no manager and  *)
(* leaves the registry as it was.                                           *)
C4_OneManagerPerIdentity ==
  /\ [](/\ \A i, j \in Managers :
             (mgr[i].exists /\ mgr[j].exists /\ mgr[i].key = mgr[j].key)
                => i = j
        /\ \A i \in Managers : mgr[i].exists => managers[mgr[i].key] = i
        /\ \A k \in Keys : managers[k] # 0 =>
             (mgr[managers[k]].exists /\ mgr[managers[k]].key = k))
  /\ [][\A i \in Managers, k \in Keys :
          (~mgr[i].exists /\ managers[k] # 0 /\ last' = Did("init", i, "none"))
             => managers'[k] = managers[k]]_vars
  /\ [][(last'.op = "init" /\ last'.err = "ValueError")
          => (managers' = managers /\ mgr' = mgr)]_vars

C4_Witness ==
  /\ last = Did("init", 2, "ValueError")
  /\ mgr[1].exists /\ ~mgr[2].exists

(* C5: shutdown() on a manager in any state completes without error and     *)
(* leaves running false, the tracked table empty, no listener handle and    *)
(* the manager absent from the running registry.                            *)
C5_ShutdownAnyState ==
  \A i \in Managers :
    (last.op = "shutdown" /\ last.id = i)
      => /\ last.err = "none"
         /\ ~mgr[i].running
         /\ mgr[i].tendrils = EmptyTable
         /\ mgr[i].listen_thread = 0
         /\ running_managers[mgr[i].key] # i

(* C6: close() is idempotent: a call on a tendril that is already closed    *)
(* changes no state.                                                        *)
C6_CloseIdempotent ==
  [][\A t \in Tendrils :
       (/\ tend[t].exists /\ tend[t].sock = 0
        /\ tend[t].recv_thread = None /\ tend[t].send_thread = None
        /\ last' = Did("close", t, "none"))
          => (tend' = tend /\ mgr' = mgr)]_vars

(* C7: a tendril terminated only by close() calls, its own or those of the  *)
(* manager's shutdown(), gets no close notification, also after the         *)
(* completion handlers of its killed greenlets have run.                    *)
C7_CloseNeverNotifies ==
  \A t \in Tendrils :
    ~EngineTerminated(tend[t]) => tend[t].notified = <<>>

C7_Witness ==
  \E t \in Tendrils :
    /\ ~EngineTerminated(tend[t])
    /\ Quiescent(tend[t])
    /\ tend[t].sock = 0
    /\ mgr[tend[t].mgr].listen_thread = 0

C9_WrittenIsPrefix ==
  \A t \in Tendrils :
    /\ tend[t].written \o tend[t].sendbuf = tend[t].submitted
    /\ (tend[t].sendPc = "wait" /\ ~tend[t].sendbuf_event)
          => tend[t].sendbuf = <<>>
    /\ tend[t].sendPc = "send"
          => /\ tend[t].sendArg # <<>>
             /\ Len(tend[t].sendArg) <= Len(tend[t].sendbuf)
             /\ tend[t].sendArg =
                  SubSeq(tend[t].sendbuf, 1, Len(tend[t].sendArg))

C9_Witness ==
  \E t \in Tendrils :
    /\ Len(tend[t].written) = 1 /\ Len(tend[t].submitted) = 4
    /\ tend[t].sendPc = "send"

(* C10: with an acceptor that faults on every call the accept loop makes    *)
(* exactly ErrThreshold attempts and then dies of the fault; its completion *)
(* handler stops the manager, and no tendril was tracked.                   *)
C10_TenAttempts ==
  \A l \in Listeners :
    (lis[l].accepted = 0 /\ lis[l].attempts > 0)
      => /\ lis[l].attempts <= ErrThreshold
         /\ (lis[l].pc = "dead") = (lis[l].attempts = ErrThreshold)
         /\ lis[l].pc = "dead" => lis[l].exc = "error"
         /\ lis[l].tracked = 0
         /\ Tracked(lis[l].mgr) = {}
         /\ lis[l].link = "done"
              => (/\ ~mgr[lis[l].mgr].running
                  /\ running_managers[mgr[lis[l].mgr].key] = 0)

C10_Witness ==
  \E l \in Listeners :
    /\ lis[l].accepted = 0 /\ lis[l].attempts = ErrThreshold
    /\ lis[l].link = "done"

(* C11: the accept loop does not abort unless the 10 most recent acceptance *)
(* attempts all failed.                                                     *)
C11_TenConsecutive ==
  \A l \in Listeners :
    (lis[l].pc = "dead" /\ lis[l].exc = "error" /\ lis[l].attempts > 0)
      => lis[l].streak >= ErrThreshold

(* C11 as amended: the loop aborts exactly when its error counter reaches   *)
(* ErrThreshold, the counter going up by one on a failed attempt and down   *)
(* by one, not below zero, on a successful one: at an abort the last        *)
(* attempt failed, at least ErrThreshold attempts failed, and the failures  *)
(* exceed the successes by at most ErrThreshold.                            *)
C11_LeakyCounter ==
  \A l \in Listeners :
    LET fails == lis[l].attempts - lis[l].accepted IN
    /\ lis[l].err_thresh <= fails
    /\ lis[l].err_thresh >= fails - lis[l].accepted
    /\ lis[l].err_thresh <= ErrThreshold
    /\ lis[l].attempts > 0 =>
         ((lis[l].pc = "dead" /\ lis[l].exc = "error")
             = (lis[l].err_thresh = ErrThreshold))
    /\ (lis[l].pc = "dead" /\ lis[l].exc = "error" /\ lis[l].attempts > 0)
         => (lis[l].streak >= 1 /\ fails >= ErrThreshold
             /\ fails - lis[l].accepted <= ErrThreshold)

C11_Witness ==
  \E l \in Listeners :
    /\ lis[l].pc = "dead" /\ lis[l].exc = "error"
    /\ lis[l].accepted > 0 /\ lis[l].streak < ErrThreshold
    /\ lis[l].attempts > ErrThreshold

\* The listener greenlets that are alive.
Alive(l) == lis[l].pc \in {"spawned", "sleep", "accept"}

(* C12: start() on a manager whose running flag is set raises ValueError,   *)
(* leaves the running registry and the manager as they were and spawns no   *)
(* listener greenlet.                                                       *)
C12_StartRunningFails ==
  [][\A i \in Managers :
       (mgr[i].running /\ last'.op = "start" /\ last'.id = i)
          => /\ last'.err = "ValueError"
             /\ running_managers' = running_managers
             /\ mgr' = mgr /\ lis' = lis]_vars

C12_Witness ==
  /\ last = Did("start", 1, "ValueError")
  /\ mgr[1].running /\ running_managers[mgr[1].key] = 0

(* C13: start() on a manager whose running flag is clear while its identity *)
(* is in the running registry raises ValueError, leaves the registry entry  *)
(* and the clear flag as they were and spawns no listener greenlet.         *)
C13_StartDesyncFails ==
  [][\A i \in Managers :
       (/\ ~mgr[i].running /\ running_managers[mgr[i].key] # 0
        /\ last'.op = "start" /\ last'.id = i)
          => /\ last'.err = "ValueError"
             /\ running_managers' = running_managers
             /\ ~mgr'[i].running
             /\ mgr' = mgr /\ lis' = lis]_vars

C13_Witness ==
  /\ last = Did("start", 1, "ValueError")
  /\ ~mgr[1].running /\ running_managers[mgr[1].key] = 1

C15_ExitRunsStop ==
  /\ \A l \in Listeners :
       (lis[l].pc = "dead" /\ lis[l].link # "done") ~> (lis[l].link = "done")
  /\ [][\A l \in Listeners :
          (lis[l].link = "pending" /\ lis'[l].link = "done")
             => /\ ~mgr'[lis[l].mgr].running
                /\ running_managers'[mgr[lis[l].mgr].key] = 0]_vars
  /\ [](\A l \in Listeners : lis[l].pc = "dead" => lis[l].link # "none")

C15_Witness ==
  \E l \in Listeners :
    /\ lis[l].pc = "dead" /\ lis[l].exc = "GreenletExit"
    /\ lis[l].link = "done"
    /\ ~mgr[lis[l].mgr].running

(* C16: stop() removes the manager from the running registry and clears     *)
(* the running flag, and changes nothing else: not the listener handle, not *)
(* the listener greenlet, not the tracked table, not any tendril.           *)
C16_StopFrame ==
  [][\A i \in Managers :
       (\/ last' = Did("stop", i, "none")
        \/ \E l \in Listeners :
             lis[l].mgr = i /\ lis[l].link = "pending" /\ lis'[l].link = "done")
          => /\ running_managers' =
                  [running_managers EXCEPT ![mgr[i].key] = 0]
             /\ mgr' = [mgr EXCEPT ![i].running = FALSE]
             /\ tend' = tend
             /\ managers' = managers
             /\ \A l \in Listeners :
                  lis'[l] = [lis[l] EXCEPT !.link = lis'[l].link]]_vars

C16_Witness ==
  /\ last = Did("stop", 1, "none")
  /\ ~mgr[1].running /\ mgr[1].listen_thread # 0
  /\ Alive(mgr[1].listen_thread)
  /\ Tracked(1) # {}
  /\ \E t \in Tracked(1) : tend[t].sock # 0

(* C17: shutdown() kills the listener greenlet and closes every tendril     *)
(* that was tracked when it was called, after which the tracked table is    *)
(* empty.                                                                   *)
C17_ShutdownClosesTracked ==
  [][\A i \in Managers :
       (last'.op = "shutdown" /\ last'.id = i)
          => /\ \A t \in Tracked(i) : tend'[t] = CloseT(tend[t])
             /\ mgr'[i].tendrils = EmptyTable
             /\ \A l \in Listeners :
                  lis[l].mgr = i => ~(lis'[l].pc \in {"spawned", "sleep",
                                                     "accept"})]_vars

C19_FamilyMismatch ==
  [][\A i \in Managers :
       (mgr[i].running /\ last'.op = "connect_mismatch" /\ last'.id = i)
          => (last'.err = "ValueError" /\ tend' = tend /\ mgr' = mgr)]_vars

(* C20: when a step of connect()'s set-up faults, the socket is closed, the *)
(* fault is raised to the caller, no tendril is tracked and the attempt is  *)
(* not repeated.                                                            *)
C20_ConnectFaultCleansUp ==
  [][/\ \A t \in Tendrils :
          (tend[t].conn = "connecting" /\ ~tend'[t].exists
           /\ tend'[t].conn # "connecting")
             => /\ last' = Did("connect", tend[t].mgr, "error")
                /\ tend'[t].sock = 0 /\ tend'[t].conn = "none"
                /\ mgr' = mgr
                /\ \A u \in Tendrils \ {t} : tend'[u] = tend[u]
     /\ (last'.op = "connect" /\ last'.err = "error")
          => \E t \in Tendrils :
               tend[t].conn = "connecting" /\ tend[t].sock # 0
               /\ tend'[t].sock = 0 /\ t \notin Tracked(tend[t].mgr)]_vars

C20_Witness ==
  /\ last.op = "connect" /\ last.err = "error"
  /\ \E t \in Tendrils : tend[t].exists /\ t \in Tracked(1)

C22_AcceptorFaultSwallowed ==
  [][\A l \in Listeners :
       (lis'[l].rejected # lis[l].rejected)
          => /\ lis'[l].cli = 0
             /\ mgr' = mgr /\ tend' = tend
             /\ lis'[l].tracked = lis[l].tracked
             /\ ~Aborts(lis'[l].err_thresh)
                  => /\ lis'[l].pc = "accept"
                     /\ lis'[l].exc = "none" /\ lis'[l].link = "none"
                     /\ lis'[l].attempts = lis[l].attempts + 1]_vars

C22_Witness ==
  \E l \in Listeners :
    /\ lis[l].rejected >= 1 /\ lis[l].accepted = 1 /\ lis[l].streak = 0
    /\ lis[l].pc = "accept" /\ Tracked(lis[l].mgr) # {}

C24_FramersIndependent ==
  [][\A t \in Tendrils :
       /\ (last'.id = t /\ last'.op \in {"set_send_framer", "del_send_framer"})
            => /\ tend'[t] = [tend[t] EXCEPT
                                !.send_framer = tend'[t].send_framer]
               /\ \A u \in Tendrils \ {t} : tend'[u] = tend[u]
       /\ (last'.id = t /\ last'.op \in {"set_recv_framer", "del_recv_framer"})
            => /\ tend'[t] = [tend[t] EXCEPT
                                !.recv_framer = tend'[t].recv_framer]
               /\ \A u \in Tendrils \ {t} : tend'[u] = tend[u]
       /\ (last'.id = t /\ last'.err = "ValueError"
           /\ last'.op \in {"set_send_framer", "set_recv_framer"})
            => tend' = tend
       /\ (last'.id = t /\ last'.err = "none"
           /\ last'.op \in {"set_send_framer", "set_recv_framer"})
            => (tend'[t].send_framer \in Framers
                /\ tend'[t].recv_framer \in Framers)]_vars

C24_Witness ==
  /\ last = Did("set_send_framer", 1, "none")
  /\ tend[1].send_framer # tend[1].recv_framer
  /\ tend[1].recv_framer_state.buf # <<>>
  /\ tend[1].send_framer_state.buf # <<>>

(* C25: a datagram send_frame raises ValueError exactly when the manager's  *)
(* shared socket is absent; with a socket it returns without error even     *)
(* when the transmission faults, and the tendril stays tracked.             *)
C25_SendFaultSwallowed ==
  [][\A t \in Tendrils :
       (last'.op = "udp_send_frame" /\ last'.id = t)
          => /\ last'.err \in {"none", "ValueError"}
             /\ (last'.err = "ValueError") = (mgr[tend[t].mgr].sock = 0)
             /\ mgr' = mgr
             /\ last'.err = "ValueError" => tend' = tend
             /\ last'.err = "none"
                  => Len(tend'[t].submitted) = Len(tend[t].submitted) + 1]_vars

C25_Witness ==
  /\ last.op = "udp_send_frame" /\ last.err = "none"
  /\ Len(tend[last.id].written) < Len(tend[last.id].submitted)
  /\ last.id \in Tracked(tend[last.id].mgr)

(* C26: a datagram connect() whose acceptor rejects the connection returns  *)
(* None without raising and tracks nothing; one whose acceptor accepts      *)
(* returns the new tendril, tracked under its remote address and nowhere    *)
(* else.                                                                    *)
C26_RejectNotTracked ==
  [][\A i \in Managers :
       (last'.op = "udp_connect" /\ last'.id = i /\ last'.err = "none")
          => IF last'.ret = 0
             THEN mgr' = mgr /\ tend' = tend
             ELSE /\ ~tend[last'.ret].exists /\ tend'[last'.ret].exists
                  /\ {a \in Addrs : mgr'[i].tendrils[a] = last'.ret}
                       = {tend'[last'.ret].addr}
                  /\ \A a \in Addrs \ {tend'[last'.ret].addr} :
                       mgr'[i].tendrils[a] = mgr[i].tendrils[a]]_vars

C26_Witness ==
  /\ last = DidRet("udp_connect", 1, "none", 0)
  /\ mgr[1].running
  /\ \E a \in Addrs : mgr[1].tendrils[a] = 0

\* The completion handler of tendril t's greenlet on one side runs in this
\* step.
HandlerRuns(t, side) ==
  IF side = "send"
  THEN tend[t].sendLink = "pending" /\ tend'[t].sendLink = "done"
  ELSE tend[t].recvLink = "pending" /\ tend'[t].recvLink = "done"

ExitOf(t, side) == IF side = "send" THEN tend[t].sendExc ELSE tend[t].recvExc

(* C28: when the completion handler runs for a greenlet that died of a      *)
(* fault or returned normally, the tendril is closed (socket closed, both   *)
(* handles cleared, untracked) and one notification is delivered, carrying  *)
(* the fault, or 'thread exited prematurely' after a normal return; no      *)
(* notification is ever delivered with the socket still open.               *)
C28_CloseThenNotify ==
  /\ [][\A t \in Tendrils, side \in {"recv", "send"} :
          (HandlerRuns(t, side) /\ ExitOf(t, side) # "GreenletExit")
             => /\ tend'[t].notified =
                     Append(tend[t].notified,
                            IF ExitOf(t, side) = "none" THEN "premature"
                            ELSE ExitOf(t, side))
                /\ tend'[t].sock = 0
                /\ tend'[t].recv_thread = None /\ tend'[t].send_thread = None
                /\ t \notin TableRange(mgr'[tend[t].mgr].tendrils)]_vars
  /\ [](\A t \in Tendrils : ~tend[t].notifiedOpen)

C28_Witness ==
  \E t \in Tendrils :
    /\ tend[t].notified = <<"premature">>
    /\ tend[t].sock = 0 /\ tend[t].recvLink = "done"
    /\ tend[t].recvExc = "none"
    /\ t \notin Tracked(tend[t].mgr)

(* C29: when the completion handler runs for a greenlet that was killed     *)
(* (GreenletExit), the tendril is closed and untracked and no notification  *)
(* is delivered.                                                            *)
C29_KilledIsSilent ==
  [][\A t \in Tendrils, side \in {"recv", "send"} :
       (HandlerRuns(t, side) /\ ExitOf(t, side) = "GreenletExit")
          => /\ tend'[t].notified = tend[t].notified
             /\ tend'[t].sock = 0
             /\ tend'[t].recv_thread = None /\ tend'[t].send_thread = None
             /\ t \notin TableRange(mgr'[tend[t].mgr].tendrils)
             /\ tend'[t].written = tend[t].written
             /\ tend'[t].delivered = tend[t].delivered]_vars

C29_Witness ==
  \E t \in Tendrils :
    /\ tend[t].sendLink = "done" /\ tend[t].sendExc = "GreenletExit"
    /\ tend[t].notified = <<>> /\ tend[t].sock = 0
    /\ tend[t].recvPc = "dead" /\ tend[t].recvLink = "pending"
    /\ t \notin Tracked(tend[t].mgr)

(* C30: the completion handler of one side leaves the other side's handle   *)
(* as it was.                                                               *)
C30_OnlyOwnHandle ==
  [][\A t \in Tendrils :
       /\ HandlerRuns(t, "send") => tend'[t].recv_thread = tend[t].recv_thread
       /\ HandlerRuns(t, "recv") => tend'[t].send_thread = tend[t].send_thread
     ]_vars

(* C30 as amended: the handler's close() clears both handles; a sibling     *)
(* whose handle was still set is killed by it, and a sibling whose handle   *)
(* was already cleared is left exactly as it was, not cancelled again.      *)
C30_SiblingKilledOnce ==
  [][\A t \in Tendrils :
       /\ HandlerRuns(t, "send")
            => /\ tend'[t].recv_thread = None /\ tend'[t].send_thread = None
               /\ tend[t].recv_thread # None
                    => ~(tend'[t].recvPc \in {"spawned", "recv"})
               /\ tend[t].recv_thread = None
                    => /\ tend'[t].recvPc = tend[t].recvPc
                       /\ tend'[t].recvExc = tend[t].recvExc
                       /\ tend'[t].recvLink = tend[t].recvLink
       /\ HandlerRuns(t, "recv")
            => /\ tend'[t].recv_thread = None /\ tend'[t].send_thread = None
               /\ tend[t].send_thread # None
                    => ~(tend'[t].sendPc \in {"spawned", "wait", "send"})
               /\ tend[t].send_thread = None
                    => /\ tend'[t].sendPc = tend[t].sendPc
                       /\ tend'[t].sendExc = tend[t].sendExc
                       /\ tend'[t].sendLink = tend[t].sendLink]_vars

C30_Witness ==
  \E t \in Tendrils :
    /\ tend[t].sendLink = "done" /\ tend[t].recvLink = "done"
    /\ tend[t].sendExc = "error" /\ tend[t].recvExc = "GreenletExit"
    /\ tend[t].recv_thread = None /\ tend[t].send_thread = None

(* C27: get_manager for an identity that has a registered manager returns   *)
(* that manager, with the protocol name in either letter case and with the  *)
(* endpoint left out for the wildcard identity, and changes no registry.    *)
C27_ResolveExisting ==
  [][(last'.op = "get_manager" /\ managers[NormEndpoint(last'.id)] # 0)
        => /\ last'.err = "none"
           /\ last'.ret = managers[NormEndpoint(last'.id)]
           /\ managers' = managers /\ mgr' = mgr]_vars

(* C31: on an empty read the receive greenlet, in one uninterrupted run,     *)
(* kills the send greenlet and clears its handle, closes the socket and      *)
(* clears the reference, untracks the tendril, gives the application one     *)
(* close notification with no error (the socket being closed by then), and   *)
(* ends with GreenletExit; its completion handler then gives no              *)
(* notification.                                                             *)
C31_EOFTeardown ==
  /\ [][\A t \in Tendrils :
          (tend[t].recvPc = "recv"
           /\ Len(tend'[t].reads) = Len(tend[t].reads) + 1
           /\ tend'[t].reads[Len(tend'[t].reads)] = 0)
            => /\ tend'[t].send_thread = None
               /\ (tend[t].send_thread # None /\ tend[t].sendPc # "dead")
                     => (tend'[t].sendPc = "dead"
                         /\ tend'[t].sendExc = "GreenletExit")
               /\ tend'[t].sock = 0
               /\ \A i \in Managers : t \notin TableRange(mgr'[i].tendrils)
               /\ tend'[t].notified = Append(tend[t].notified, None)
               /\ ~tend'[t].notifiedOpen
               /\ tend'[t].recvPc = "dead"
               /\ tend'[t].recvExc = "GreenletExit"]_vars
  /\ [][\A t \in Tendrils :
          (HandlerRuns(t, "recv") /\ Len(tend[t].reads) > 0
           /\ tend[t].reads[Len(tend[t].reads)] = 0)
            => tend'[t].notified = tend[t].notified]_vars

C31_Witness ==
  \E t \in Tendrils :
    /\ Len(tend[t].reads) > 0 /\ tend[t].reads[Len(tend[t].reads)] = 0
    /\ tend[t].sendExc = "GreenletExit"
    /\ tend[t].recvLink = "done" /\ tend[t].sendLink = "done"
    /\ tend[t].notified = <<None>>

\* The receive greenlet of tendril t died inside its own call of close():
\* dead of GreenletExit with its handle still set and the socket still open.
SelfClosed(t) ==
  /\ tend[t].recvPc = "dead" /\ tend[t].recvExc = "GreenletExit"
  /\ tend[t].recv_thread # None /\ tend[t].sock # 0

FullyClosed(t) ==
  /\ tend[t].recvPc = "dead" /\ tend[t].sendPc = "dead"
  /\ tend[t].recv_thread = None /\ tend[t].send_thread = None
  /\ tend[t].sock = 0
  /\ \A i \in Managers : t \notin Tracked(i)

(* C32: a close() called inside the receive greenlet kills that greenlet     *)
(* before the rest of close() runs, and the tendril still ends fully closed: *)
(* both greenlets dead, both handles cleared, the socket closed and the      *)
(* tendril untracked, with no close notification given to the application.   *)
C32_SelfCloseCompletes ==
  /\ \A t \in Tendrils : SelfClosed(t) ~> FullyClosed(t)
  /\ [](\A t \in Tendrils : tend[t].notified = <<>>)

C32_Witness ==
  \E t \in Tendrils :
    /\ SelfClosed(t) /\ tend[t].sendPc # "dead" /\ tend[t].send_thread # None
    /\ t \in Tracked(1)

(* C33: wrap() on a tendril whose greenlets were never started replaces the  *)
(* socket within the call and changes nothing else of the tendril: the       *)
(* restart event, the two locks and the wrap's own position stay as they     *)
(* were, and the call never waits.                                           *)
C33_WrapUnstarted ==
  /\ [][\A t \in Tendrils :
          (tend[t].recvPc = "none" /\ tend[t].sendPc = "none"
           /\ last' = Did("wrap", t, "none"))
            => /\ tend'[t].sock # tend[t].sock /\ tend'[t].sock # 0
               /\ tend'[t] = [tend[t] EXCEPT !.sock = tend'[t].sock]
               /\ tend[t].restart = FALSE /\ tend[t].recv_lock = -1
               /\ tend[t].send_lock = -1]_vars
  /\ [](\A t \in Tendrils :
          (tend[t].recvPc = "none" /\ tend[t].sendPc = "none")
             => tend[t].wrapPc = "idle")

C33_Witness ==
  \E t \in Tendrils :
    /\ tend[t].recvPc = "none" /\ tend[t].sendPc = "none"
    /\ last = Did("wrap", t, "none") /\ tend[t].sock = 2
    /\ ~tend[t].restart

C35_WrapReturns ==
  \A t \in Tendrils :
    (tend[t].wrapPc = "recv_lock")
       ~> (tend[t].wrapPc = "idle" /\ tend[t].restart
           /\ tend[t].sock > 1)

(* C36: whenever the send greenlet is parked in _sendbuf_event.wait() the    *)
(* send buffer is empty or the event is set; so, with the send greenlet      *)
(* scheduled fairly and the socket completing its writes, everything handed  *)
(* to send_frame on a started tendril is written, in full, unless the        *)
(* tendril is closed first.                                                  *)
C36_NoLostWakeup ==
  /\ [](\A t \in Tendrils :
          tend[t].sendPc = "wait"
             => (tend[t].sendbuf = <<>> \/ tend[t].sendbuf_event))
  /\ \A t \in Tendrils :
        (tend[t].sendPc # "none" /\ tend[t].written # tend[t].submitted)
           ~> (tend[t].written = tend[t].submitted \/ tend[t].sock = 0)

C36_Witness ==
  \E t \in Tendrils :
    /\ tend[t].sendPc = "wait" /\ ~tend[t].sendbuf_event
    /\ tend[t].sock # 0 /\ tend[t].wrapPc = "recv_lock"
    /\ Len(tend[t].submitted) = 2 * MaxFrames
    /\ tend[t].written = tend[t].submitted

(* C37: when the link of a listener greenlet of an earlier start cycle runs  *)
(* stop() after the manager was shut down and started again, the manager     *)
(* stays running and stays in the running registry.                          *)
C37_StaleLinkHarmless ==
  [][\A l \in Listeners :
       LET i == lis[l].mgr IN
       (lis[l].link = "pending" /\ lis'[l].link = "done"
        /\ lis[l].exc = "GreenletExit"
        /\ mgr[i].running /\ mgr[i].listen_thread # l)
          => (mgr'[i].running /\ running_managers'[mgr[i].key] = i)]_vars

(* C38: at every moment, over every sequence of start(), stop() and          *)
(* shutdown(), at most one listener greenlet of a manager is alive.          *)
C38_OneListenerAlive ==
  \A i \in Managers :
    Cardinality({l \in Listeners : lis[l].mgr = i /\ Alive(l)}) <= 1

(* C39: after every completed start(), stop() or shutdown(), failed or not,  *)
(* a manager's running flag is set exactly when the running registry maps    *)
(* its identity to it; every manager in the running registry is the one the  *)
(* manager registry holds for that identity; and at most one manager of an   *)
(* identity is running.                                                      *)
C39_RunningMatchesRegistry ==
  /\ \A i \in Managers :
        mgr[i].exists
          => (mgr[i].running = (running_managers[mgr[i].key] = i))
  /\ \A k \in Keys :
        running_managers[k] # 0
          => (managers[k] = running_managers[k]
              /\ mgr[running_managers[k]].exists
              /\ mgr[running_managers[k]].key = k)
  /\ \A i, j \in Managers :
        (mgr[i].exists /\ mgr[j].exists /\ mgr[i].running /\ mgr[j].running
         /\ mgr[i].key = mgr[j].key) => i = j

C39_Witness ==
  /\ last = Did("shutdown", 1, "AttributeError")
  /\ \E i \in Managers : i # 1 /\ mgr[i].running
  /\ \E l \in Listeners : lis[l].link = "done" /\ lis[l].mgr = 1

(* C40: untracking is per tendril: every tendril that connect() or the       *)
(* accept loop created and that is not closed is in its manager's table,     *)
(* also when another tendril has the same remote address, and closing one    *)
(* tendril never removes the entry of another tendril that is still open.    *)
C40_UntrackPerTendril ==
  /\ [](\A t \in Tendrils :
          (tend[t].exists /\ tend[t].sock # 0 /\ tend[t].mgr # 0)
             => t \in Tracked(tend[t].mgr))
  /\ [][\A t, u \in Tendrils :
          (t # u /\ last' = Did("close", t, "none")
           /\ tend[u].exists /\ tend[u].sock # 0
           /\ u \in Tracked(tend[u].mgr))
             => u \in TableRange(mgr'[tend[u].mgr].tendrils)]_vars

====
